---- MODULE Spec2Model ----
(***************************************************************************)
(* smeltme: the title resolver (get_titles and the per-tracker tasks it    *)
(* submits to a thread pool) and the incident fetcher (get_incidents,      *)
(* get_all_incidents) of src/smeltme.py.                                    *)
(*                                                                         *)
(* A URL is a record [scheme, netloc, id]: netloc is the tuple of the      *)
(* dot-separated labels of urlparse(url).netloc, id is the tail the code   *)
(* extracts with split("=")[-1] (Bugzilla) or os.path.basename (Jira).     *)
(* The trackers are the environment: what a request answers is chosen      *)
(* when the request is first issued and recorded (batchLog, bugLog,        *)
(* issueLog), so that the remote state does not change afterwards.         *)
(***************************************************************************)
EXTENDS Integers, Sequences, FiniteSets, TLC

\* ------------------------------------------------------------------ bounds

\* identifiers 1..MaxId may be answered, omitted or renamed by a tracker
MaxId == 2
\* number of individually chosen URLs of the input set
MaxUrls == 2
\* a bulk group has c * MAX_ISSUES + d identifiers, c <= MaxFull, d <= MaxExtra
MaxFull == 1
MaxExtra == 1
\* pages of a route of the incident listing
MaxPages == 3
\* incidents on one page
MaxPerPage == 2

\* --------------------------------------------------------- program constants

MAX_ISSUES == 200

SUSE == <<"bugzilla", "suse", "com">>
OPENSUSE == <<"bugzilla", "opensuse", "org">>
KERNEL == <<"bugzilla", "kernel", "org">>
GNOME == <<"bugzilla", "gnome", "org">>
JIRA == <<"jira", "suse", "com">>
PROGRESS == <<"progress", "opensuse", "org">>

\* the hosts get_bugzilla_issues sends the API key to
TokenHosts == {SUSE, OPENSUSE}

Netlocs == {SUSE, OPENSUSE, KERNEL, GNOME, JIRA, PROGRESS}

VARIABLES
  urls,            \* get_titles: the input set
  BUGZILLA_TOKEN,  \* whether the credential is configured (non-empty)
  JIRA_TOKEN,
  pc,              \* get_titles: "start", "running", "unwinding", "done", "raised"
  bugzillas,       \* host -> list of its URLs, in iteration order
  jira_urls,       \* list of the Jira URLs, in iteration order
  task,            \* submitted future -> state of the task
  merged,          \* futures as_completed has yielded
  titles,          \* the mapping being built
  reqs,            \* endpoint host -> the batch requests issued (each its id list)
  ireqs,           \* URL -> number of individual requests get_jira_issue issued for it
  batchLog,        \* remote state: [host, n] -> outcome of the n-th batch request
  bugLog,          \* remote state: [host, id] -> identifier answered (0: none)
  issueLog,        \* remote state: id -> outcome of the individual Jira request
  again,           \* TRUE in the second resolution of the same set
  prev,            \* outcome of the first resolution
  routes,          \* get_all_incidents: the routes
  pages,           \* remote state: route -> number of pages of its listing
  fetch,           \* route -> state of get_incidents(route)
  ipc,             \* get_all_incidents: "fetching", "done"
  incidents        \* get_all_incidents: the returned list

tvars == <<urls, BUGZILLA_TOKEN, JIRA_TOKEN, pc, bugzillas, jira_urls, task,
           merged, titles, reqs, ireqs, batchLog, bugLog, issueLog, again, prev>>
ivars == <<routes, pages, fetch, ipc, incidents>>
vars == <<tvars, ivars>>

\* ----------------------------------------------------------------- helpers

Min(a, b) == IF a < b THEN a ELSE b

Range(s) == {s[k] : k \in 1..Len(s)}

Reverse(s) == [k \in 1..Len(s) |-> s[Len(s) + 1 - k]]

\* every enumeration of a finite set as a sequence
Perms(S) == {p \in [1..Cardinality(S) -> S] : Range(p) = S}

EmptyMap == [x \in {} |-> x]

\* [x for x in s if x not in S]
Without(s, S) == SelectSeq(s, LAMBDA x : x \notin S)

\* the greatest element of a non-empty set of integers
Max(S) == CHOOSE m \in S : \A j \in S : j <= m

\* ------------------------------------------------------------ URLs and issues

\* str.startswith(label + ".") on a netloc
startswith(netloc, label) == Len(netloc) > 1 /\ netloc[1] = label

\* u.split("=")[-1] of a Bugzilla URL, os.path.basename(u) of a Jira URL
basename(u) == u.id

\* f"https://{host}/show_bug.cgi?id={i['id']}"
BugzillaUrl(host, id) == [scheme |-> "https", netloc |-> host, id |-> id]

\* f"https://jira.suse.com/browse/{i['key']}"
JiraUrl(key) == [scheme |-> "https", netloc |-> JIRA, id |-> key]

\* the one-line summary a tracker holds for an identifier
Summary(host, id) == <<host, id>>

Issue(url, title) == [url |-> url, title |-> title]

\* the title the dict comprehension over issues keeps for url: the last one
LastTitle(issues, url) == issues[Max({k \in 1..Len(issues) : issues[k].url = url})].title

Override(map, issues, keys) ==
  [u \in DOMAIN map \cup keys |-> IF u \in keys THEN LastTitle(issues, u) ELSE map[u]]

\* mutant: titles = {...}, the mapping replaced instead of updated
Update_assign(map, issues) == Override(EmptyMap, issues, {issues[k].url : k \in 1..Len(issues)})

\* titles |= {i.url: i.title for i in issues}: a later entry replaces an earlier one
Update(map, issues) == Override(map, issues, {issues[k].url : k \in 1..Len(issues)})

\* ------------------------------------------------------------- the input sets

\* the URLs chosen individually: the canonical form of every identifier up to
\* MaxId on every host, and another form (http) of identifier 1 on two hosts
SmallURLs ==
  [scheme : {"https"}, netloc : Netlocs, id : 1..MaxId]
    \cup [scheme : {"http"}, netloc : {SUSE, JIRA}, id : {1}]

SmallSets == {S \in SUBSET SmallURLs : Cardinality(S) <= MaxUrls}

\* a bulk group: n canonical URLs of one host, identifiers above MaxId
BulkSeq(host, n) == [j \in 1..n |-> [scheme |-> "https", netloc |-> host, id |-> MaxId + j]]

BulkSizes == {c * MAX_ISSUES + d : c \in 1..MaxFull, d \in 0..MaxExtra}

IsBulk(u) == u.id > MaxId

\* the bulk URLs of a set in ascending order of identifier
Ascending(B) == [j \in 1..Cardinality(B) |-> CHOOSE u \in B : u.id = MaxId + j]

OrdersOf(small, b) ==
  UNION {{p \o b, b \o p, p \o Reverse(b), Reverse(b) \o p} : p \in Perms(small)}

\* the iteration orders of a set considered: every order of its individually
\* chosen URLs, before or after the bulk URLs, these ascending or descending
Orders(S) == OrdersOf({u \in S : ~IsBulk(u)}, Ascending({u \in S : IsBulk(u)}))

\* ---------------------------------------------------------- the remote state

Outcomes == {"ok", "fail", "bad"}

\* what a tracker answers for identifier id: nothing (0), the bug itself, or the
\* bug under another identifier (an alias, a moved issue)
Answers(id) == IF id > MaxId THEN {id} ELSE {0, id, -id}

Known(log, key, v) == key \in DOMAIN log => log[key] = v

Record(log, key, v) == (key :> v) @@ log

\* the answers of host to the identifiers of one request that the remote state
\* allows: a function over the identifiers up to MaxId among ids
Replies(log, host, ids) ==
  LET S == {i \in Range(ids) : i <= MaxId}
  IN {f \in [S -> UNION {Answers(i) : i \in S}] :
        \A i \in S : f[i] \in Answers(i) /\ Known(log, [host |-> host, id |-> i], f[i])}

Learn(log, host, f) ==
  [k \in DOMAIN log \cup {[host |-> host, id |-> i] : i \in DOMAIN f} |->
     IF k.host = host /\ k.id \in DOMAIN f THEN f[k.id] ELSE log[k]]

\* the identifiers a 2xx response to a request for ids carries, in request order
AnswersTo(f, ids) ==
  [k \in 1..Len(ids) |-> IF ids[k] \in DOMAIN f THEN f[ids[k]] ELSE ids[k]]

Returned(f, ids) == Without(AnswersTo(f, ids), {0})

\* ------------------------------------------------------------------ get_titles

\* mutant: the issues of the chunks fetched so far are returned
BatchFailed_partial == "ret"

\* lines 152 and 199: a failed batch request makes the task return None
BatchFailed == "none"

\* mutant: the individual issue is keyed by its canonical URL
RetryUrl_canonical(url) == JiraUrl(basename(url))

\* line 179: get_jira_issue keys its issue by the URL it was given
RetryUrl(url) == url

NewTask == [st |-> "run", pos |-> 0, issues |-> <<>>, missing |-> <<>>, got |-> <<>>]

Finished(t) == task[t].st \in {"ret", "none", "exc"}

\* mutant: nothing is removed
Unsupported_none == {}

\* the hosts get_titles removes from the Bugzilla groups
Unsupported == {GNOME}

\* lines 224-243: group the URLs by host, drop the unsupported hosts, submit one
\* task per Bugzilla host and one for Jira
Group ==
  /\ pc = "start"
  /\ \E order \in Orders(urls) :
       LET bz == SelectSeq(order, LAMBDA u : startswith(u.netloc, "bugzilla"))
           ju == SelectSeq(order, LAMBDA u : ~startswith(u.netloc, "bugzilla")
                                              /\ startswith(u.netloc, "jira"))
           hosts == {u.netloc : u \in Range(bz)} \ Unsupported
           futures == hosts \cup (IF ju # <<>> THEN {JIRA} ELSE {})
       IN /\ bugzillas' = [h \in hosts |-> SelectSeq(bz, LAMBDA u : u.netloc = h)]
          /\ jira_urls' = ju
          /\ task' = [t \in futures |-> NewTask]
          /\ reqs' = [t \in futures |-> <<>>]
  /\ pc' = "running"
  /\ merged' = {}
  /\ titles' = EmptyMap
  /\ ireqs' = EmptyMap
  /\ UNCHANGED <<urls, BUGZILLA_TOKEN, JIRA_TOKEN, batchLog, bugLog, issueLog, again, prev>>
  /\ UNCHANGED ivars

\* mutant: the slice is one too long
Chunk_long(issue_ids, pos) ==
  SubSeq(issue_ids, pos + 1, Min(pos + MAX_ISSUES + 1, Len(issue_ids)))

\* line 135: [u.split("=")[-1] for u in urls]; line 188: [os.path.basename(u) for u in urls]
IssueIds(group) == [k \in 1..Len(group) |-> basename(group[k])]

\* issue_ids[pos : pos + MAX_ISSUES]
Chunk(issue_ids, pos) == SubSeq(issue_ids, pos + 1, Min(pos + MAX_ISSUES, Len(issue_ids)))

\* mutant: only the first of the two hosts is gated
BugzillaGated_one(host) == ~BUGZILLA_TOKEN /\ host = SUSE

\* whether get_bugzilla_issues returns None before any request
BugzillaGated(host) == ~BUGZILLA_TOKEN /\ host \in TokenHosts

\* lines 153-161: the issues of the bugs of one response
BugzillaIssues(host, bugs) ==
  [k \in 1..Len(bugs) |-> Issue(BugzillaUrl(host, bugs[k]), Summary(host, bugs[k]))]

\* get_bugzilla_issues, one pass of its loop: the request for the next chunk
\* (the credential check first, on entry)
get_bugzilla_issues(host) ==
  /\ pc \in {"running", "unwinding"}
  /\ host \in DOMAIN bugzillas
  /\ task[host].st = "run"
  /\ IF BugzillaGated(host)
     THEN /\ task' = [task EXCEPT ![host].st = "none"]
          /\ UNCHANGED <<reqs, batchLog, bugLog>>
     ELSE LET issue_ids == IssueIds(bugzillas[host])
              pos == task[host].pos
              ids == Chunk(issue_ids, pos)
              key == [host |-> host, n |-> Len(reqs[host]) + 1]
          IN /\ reqs' = [reqs EXCEPT ![host] = Append(@, ids)]
             /\ \E oc \in Outcomes :
                  /\ Known(batchLog, key, oc)
                  /\ batchLog' = Record(batchLog, key, oc)
                  /\ \/ /\ oc = "fail"
                        /\ task' = [task EXCEPT ![host].st = BatchFailed]
                        /\ UNCHANGED bugLog
                     \/ /\ oc = "bad"
                        /\ task' = [task EXCEPT ![host].st = "exc"]
                        /\ UNCHANGED bugLog
                     \/ /\ oc = "ok"
                        /\ \E f \in Replies(bugLog, host, ids) :
                             LET found == BugzillaIssues(host, Returned(f, ids))
                             IN /\ bugLog' = Learn(bugLog, host, f)
                                /\ task' = [task EXCEPT
                                     ![host].issues = @ \o found,
                                     ![host].pos = pos + MAX_ISSUES,
                                     ![host].st = IF pos + MAX_ISSUES < Len(issue_ids)
                                                  THEN "run" ELSE "ret"]
  /\ UNCHANGED <<urls, BUGZILLA_TOKEN, JIRA_TOKEN, pc, bugzillas, jira_urls, merged,
                 titles, ireqs, issueLog, again, prev>>
  /\ UNCHANGED ivars

\* mutant: the identifiers are compared, not the URLs
Missing_by_id(group, issues) ==
  Without(group, {u \in Range(group) : basename(u) \in {issues[k].url.id : k \in 1..Len(issues)}})

\* line 211: the URLs of the group that no issue of the batch responses carries
Missing(group, issues) == Without(group, {issues[k].url : k \in 1..Len(issues)})

\* lines 201-209: the issues of one search response
JiraIssues(data) ==
  [k \in 1..Len(data) |-> Issue(JiraUrl(data[k]), Summary(JIRA, data[k]))]

\* whether get_jira_issues and get_jira_issue return None before any request
JiraGated == ~JIRA_TOKEN

\* get_jira_issues, one pass of its loop; after the last pass, the missing URLs
get_jira_issues ==
  /\ pc \in {"running", "unwinding"}
  /\ JIRA \in DOMAIN task
  /\ task[JIRA].st = "run"
  /\ IF JiraGated
     THEN /\ task' = [task EXCEPT ![JIRA].st = "none"]
          /\ UNCHANGED <<reqs, batchLog, bugLog>>
     ELSE LET issue_ids == IssueIds(jira_urls)
              pos == task[JIRA].pos
              ids == Chunk(issue_ids, pos)
              key == [host |-> JIRA, n |-> Len(reqs[JIRA]) + 1]
          IN /\ reqs' = [reqs EXCEPT ![JIRA] = Append(@, ids)]
             /\ \E oc \in Outcomes :
                  /\ Known(batchLog, key, oc)
                  /\ batchLog' = Record(batchLog, key, oc)
                  /\ \/ /\ oc = "fail"
                        /\ task' = [task EXCEPT ![JIRA].st = BatchFailed]
                        /\ UNCHANGED bugLog
                     \/ /\ oc = "bad"
                        /\ task' = [task EXCEPT ![JIRA].st = "exc"]
                        /\ UNCHANGED bugLog
                     \/ /\ oc = "ok"
                        /\ \E f \in Replies(bugLog, JIRA, ids) :
                             LET found == JiraIssues(Returned(f, ids))
                                 issues == task[JIRA].issues \o found
                                 last == pos + MAX_ISSUES >= Len(issue_ids)
                                 missing == IF last THEN Missing(jira_urls, issues) ELSE <<>>
                             IN /\ bugLog' = Learn(bugLog, JIRA, f)
                                /\ task' = [task EXCEPT
                                     ![JIRA].issues = issues,
                                     ![JIRA].pos = pos + MAX_ISSUES,
                                     ![JIRA].missing = missing,
                                     ![JIRA].got = [k \in 1..Len(missing) |-> "pending"],
                                     ![JIRA].st = IF ~last THEN "run"
                                                  ELSE IF missing # <<>> THEN "retry"
                                                  ELSE "ret"]
  /\ UNCHANGED <<urls, BUGZILLA_TOKEN, JIRA_TOKEN, pc, bugzillas, jira_urls, merged,
                 titles, ireqs, issueLog, again, prev>>
  /\ UNCHANGED ivars

\* get_jira_issue(missing[k]), run by a worker of the inner pool
get_jira_issue(k) ==
  /\ pc \in {"running", "unwinding"}
  /\ JIRA \in DOMAIN task
  /\ task[JIRA].st = "retry"
  /\ k \in DOMAIN task[JIRA].got
  /\ task[JIRA].got[k] = "pending"
  /\ LET url == task[JIRA].missing[k]
         issue == basename(url)
     IN IF JiraGated
        THEN /\ task' = [task EXCEPT ![JIRA].got[k] = "none"]
             /\ UNCHANGED <<ireqs, issueLog>>
        ELSE /\ ireqs' = Record(ireqs, url, IF url \in DOMAIN ireqs THEN ireqs[url] + 1 ELSE 1)
             /\ \E oc \in Outcomes :
                  /\ Known(issueLog, issue, oc)
                  /\ issueLog' = Record(issueLog, issue, oc)
                  /\ task' = [task EXCEPT ![JIRA].got[k] =
                                CASE oc = "ok" -> "ok" [] oc = "fail" -> "none" [] OTHER -> "exc"]
  /\ UNCHANGED <<urls, BUGZILLA_TOKEN, JIRA_TOKEN, pc, bugzillas, jira_urls, merged,
                 titles, reqs, batchLog, bugLog, again, prev>>
  /\ UNCHANGED ivars

\* lines 165-179: the issues of the individual requests kept[1], kept[2], ...
Retrieved(missing, kept) ==
  [j \in 1..Len(kept) |->
     Issue(RetryUrl(missing[kept[j]]), Summary(JIRA, basename(missing[kept[j]])))]

\* lines 213-217: executor.map yields the results in the order of missing; a
\* result that raised ends get_jira_issues (the calls not yet started are
\* cancelled), a None is skipped
JiraCollect ==
  /\ pc \in {"running", "unwinding"}
  /\ JIRA \in DOMAIN task
  /\ task[JIRA].st = "retry"
  /\ LET got == task[JIRA].got
         missing == task[JIRA].missing
         Upto(k) == \A j \in 1..k : got[j] # "pending"
         extra == Retrieved(missing, SelectSeq([k \in 1..Len(missing) |-> k],
                                               LAMBDA k : got[k] = "ok"))
     IN \/ /\ \E k \in DOMAIN got : got[k] = "exc" /\ Upto(k)
           /\ task' = [task EXCEPT ![JIRA].st = "exc"]
        \/ /\ Upto(Len(got))
           /\ \A k \in DOMAIN got : got[k] # "exc"
           /\ task' = [task EXCEPT ![JIRA].issues = @ \o extra, ![JIRA].st = "ret"]
  /\ UNCHANGED <<urls, BUGZILLA_TOKEN, JIRA_TOKEN, pc, bugzillas, jira_urls, merged,
                 titles, reqs, ireqs, batchLog, bugLog, issueLog, again, prev>>
  /\ UNCHANGED ivars

\* lines 244-247: as_completed yields a finished future; its result is merged, or
\* its exception leaves the loop
Complete(t) ==
  /\ pc = "running"
  /\ t \in DOMAIN task
  /\ t \notin merged
  /\ Finished(t)
  /\ merged' = merged \cup {t}
  /\ \/ /\ task[t].st = "exc"
        /\ pc' = "unwinding"
        /\ UNCHANGED titles
     \/ /\ task[t].st = "none"
        /\ UNCHANGED <<pc, titles>>
     \/ /\ task[t].st = "ret"
        /\ titles' = Update(titles, task[t].issues)
        /\ UNCHANGED pc
  /\ UNCHANGED <<urls, BUGZILLA_TOKEN, JIRA_TOKEN, bugzillas, jira_urls, task,
                 reqs, ireqs, batchLog, bugLog, issueLog, again, prev>>
  /\ UNCHANGED ivars

\* line 249: every future was yielded; the pool is shut down and titles returned
Return ==
  /\ pc = "running"
  /\ merged = DOMAIN task
  /\ pc' = "done"
  /\ UNCHANGED <<urls, BUGZILLA_TOKEN, JIRA_TOKEN, bugzillas, jira_urls, task, merged,
                 titles, reqs, ireqs, batchLog, bugLog, issueLog, again, prev>>
  /\ UNCHANGED ivars

\* the exception of a future leaves get_titles once the pool's shutdown has
\* waited for the tasks still running
Raise ==
  /\ pc = "unwinding"
  /\ \A t \in DOMAIN task : Finished(t)
  /\ pc' = "raised"
  /\ UNCHANGED <<urls, BUGZILLA_TOKEN, JIRA_TOKEN, bugzillas, jira_urls, task, merged,
                 titles, reqs, ireqs, batchLog, bugLog, issueLog, again, prev>>
  /\ UNCHANGED ivars

\* the caller resolves the same set once more, against the same remote state
Again ==
  /\ pc \in {"done", "raised"}
  /\ ~again
  /\ again' = TRUE
  /\ prev' = [pc |-> pc, titles |-> titles]
  /\ pc' = "start"
  /\ bugzillas' = EmptyMap
  /\ jira_urls' = <<>>
  /\ task' = EmptyMap
  /\ merged' = {}
  /\ titles' = EmptyMap
  /\ reqs' = EmptyMap
  /\ ireqs' = EmptyMap
  /\ UNCHANGED <<urls, BUGZILLA_TOKEN, JIRA_TOKEN, batchLog, bugLog, issueLog>>
  /\ UNCHANGED ivars

IdleIncidents ==
  /\ routes = <<>>
  /\ pages = EmptyMap
  /\ fetch = EmptyMap
  /\ ipc = "idle"
  /\ incidents = <<>>

InitTitles(inputs) ==
  /\ urls \in inputs
  /\ BUGZILLA_TOKEN \in BOOLEAN
  /\ JIRA_TOKEN \in BOOLEAN
  /\ pc = "start"
  /\ bugzillas = EmptyMap
  /\ jira_urls = <<>>
  /\ task = EmptyMap
  /\ merged = {}
  /\ titles = EmptyMap
  /\ reqs = EmptyMap
  /\ ireqs = EmptyMap
  /\ batchLog = EmptyMap
  /\ bugLog = EmptyMap
  /\ issueLog = EmptyMap
  /\ again = FALSE
  /\ prev = [pc |-> "none", titles |-> EmptyMap]
  /\ IdleIncidents

\* the input sets with a bulk group: the bulk URLs of one host and at most one
\* individually chosen URL
BulkSets ==
  {Range(BulkSeq(h, n)) \cup S : h \in {SUSE, JIRA}, n \in BulkSizes,
                                 S \in {T \in SUBSET {u \in SmallURLs : u.id = 1} :
                                           Cardinality(T) <= 1}}

\* the input sets resolved twice: URLs of one Bugzilla host and of Jira
TwiceSets == {S \in SmallSets : \A u \in S : u.netloc \in {SUSE, JIRA}}

\* the input sets with one URL per host, for every set of hosts
HostSets == {[scheme : {"https"}, netloc : H, id : {1}] : H \in SUBSET Netlocs}

Init == InitTitles(SmallSets \cup HostSets)

InitTwice == InitTitles(TwiceSets)

InitBulk == InitTitles(BulkSets)

\* ------------------------------------------------------------ the incidents

\* the routes main() passes for "all" (requests)
RouteNames == {"tested_declined", "tested_ready", "testing"}

RouteNo(route) ==
  CASE route = "tested_declined" -> 0 [] route = "tested_ready" -> 1 [] OTHER -> 2

\* remote state: the incidents on page k of a route's listing. A package name is
\* [rank, upper]: its place in the order of the case-folded names, and its case
PageResults(route, k) ==
  [n \in 1..((k + RouteNo(route)) % (MaxPerPage + 1)) |->
     [request_id |-> <<route, k, n>>,
      packages |-> <<[rank |-> (2 * k + n + RouteNo(route)) % 3, upper |-> n % 2 = 0]>>]]

\* remote state: the "next" of page k of a route's listing (0: null)
NextOf(route, k) == IF k < pages[route] THEN k + 1 ELSE 0

\* str.casefold
casefold(package) == package.rank

\* mutant: the page is put in front
Extend_front(results, data) == data \o results

\* results.extend(data["results"])
Extend(results, data) == results \o data

\* mutant: a failed request discards the pages fetched before it
OnFailure_empty(results) == <<>>

\* lines 116-117 and 122-123: what get_incidents returns when a request failed
OnFailure(results) == results

\* get_incidents(route), one request: the first page, or the page "next" names
get_incidents(route) ==
  /\ ipc = "fetching"
  /\ route \in DOMAIN fetch
  /\ fetch[route].st # "done"
  /\ LET page == IF fetch[route].st = "first" THEN 1 ELSE NextOf(route, fetch[route].at)
     IN \/ \* get_json returned None
           fetch' = [fetch EXCEPT ![route].st = "done",
                                  ![route].fetched = Append(@, page),
                                  ![route].failed = page,
                                  ![route].results = OnFailure(@)]
        \/ fetch' = [fetch EXCEPT ![route].st = IF NextOf(route, page) # 0 THEN "next" ELSE "done",
                                  ![route].fetched = Append(@, page),
                                  ![route].at = page,
                                  ![route].results = Extend(@, PageResults(route, page))]
  /\ UNCHANGED <<routes, pages, ipc, incidents>>
  /\ UNCHANGED tvars

\* list(chain.from_iterable(results)) for the results in the order of routes
RECURSIVE Chain(_, _)
Chain(rs, k) == IF k > Len(rs) THEN <<>> ELSE fetch[rs[k]].results \o Chain(rs, k + 1)

\* key=lambda i: str.casefold(i["packages"][0])
SortKey(incident) == casefold(incident.packages[1])

\* the place of s[i] after the stable sort of s by SortKey
Place(s, i) ==
  Cardinality({j \in 1..Len(s) : \/ SortKey(s[j]) < SortKey(s[i])
                                 \/ SortKey(s[j]) = SortKey(s[i]) /\ j <= i})

\* incidents.sort(key=...)
Sort(s) == [p \in 1..Len(s) |-> s[CHOOSE i \in 1..Len(s) : Place(s, i) = p]]

\* get_all_incidents, lines 302-305, once every get_incidents has returned
get_all_incidents ==
  /\ ipc = "fetching"
  /\ \A r \in DOMAIN fetch : fetch[r].st = "done"
  /\ incidents' = Sort(Chain(routes, 1))
  /\ ipc' = "done"
  /\ UNCHANGED <<routes, pages, fetch>>
  /\ UNCHANGED tvars

NewFetch == [st |-> "first", at |-> 0, results |-> <<>>, fetched |-> <<>>, failed |-> 0]

InitIncidents ==
  /\ routes \in UNION {Perms(R) : R \in SUBSET RouteNames \ {{}}}
  /\ pages \in [Range(routes) -> 1..MaxPages]
  /\ fetch = [r \in Range(routes) |-> NewFetch]
  /\ ipc = "fetching"
  /\ incidents = <<>>
  /\ urls = {}
  /\ BUGZILLA_TOKEN = FALSE
  /\ JIRA_TOKEN = FALSE
  /\ pc = "idle"
  /\ bugzillas = EmptyMap
  /\ jira_urls = <<>>
  /\ task = EmptyMap
  /\ merged = {}
  /\ titles = EmptyMap
  /\ reqs = EmptyMap
  /\ ireqs = EmptyMap
  /\ batchLog = EmptyMap
  /\ bugLog = EmptyMap
  /\ issueLog = EmptyMap
  /\ again = FALSE
  /\ prev = [pc |-> "none", titles |-> EmptyMap]

NextIncidents ==
  \/ \E route \in RouteNames : get_incidents(route)
  \/ get_all_incidents

Next ==
  \/ Group
  \/ \E host \in Netlocs : get_bugzilla_issues(host)
  \/ get_jira_issues
  \/ \E k \in 1..Len(jira_urls) : get_jira_issue(k)
  \/ JiraCollect
  \/ \E t \in Netlocs : Complete(t)
  \/ Return
  \/ Raise

NextTwice == Next \/ Again

Spec == Init /\ [][Next]_vars

SpecBulk == InitBulk /\ [][Next]_vars

SpecTwice == InitTwice /\ [][NextTwice]_vars

SpecIncidents == InitIncidents /\ [][NextIncidents]_vars

\* ------------------------------------------------------------------ properties

Tasks == DOMAIN task

\* the group of a task, and its identifiers in request order
GroupOf(t) == IF t = JIRA THEN jira_urls ELSE bugzillas[t]

GroupIds(t) == IssueIds(GroupOf(t))

Gated(t) == IF t = JIRA THEN JiraGated ELSE BugzillaGated(t)

\* whether a key of the mapping belongs to the group of task t
KeyOf(t, u) == IF t = JIRA THEN startswith(u.netloc, "jira") ELSE u.netloc = t

\* the batch requests of task t that the remote state made fail
FailedRequests(t) == {c \in 1..Len(reqs[t]) : batchLog[[host |-> t, n |-> c]] = "fail"}

AllOk(t) == \A c \in 1..Len(reqs[t]) : batchLog[[host |-> t, n |-> c]] = "ok"

\* the identifiers the 2xx batch responses of a host carried
Carried(host) ==
  {bugLog[k] : k \in {x \in DOMAIN bugLog : x.host = host}} \ {0}

\* the identifier the remote state answers for id on host
AnswerOf(host, id) == IF id > MaxId THEN id ELSE bugLog[[host |-> host, id |-> id]]

NoRequest(host) == host \in DOMAIN reqs => reqs[host] = <<>>

Retried(u) == IF u \in DOMAIN ireqs THEN ireqs[u] ELSE 0

RECURSIVE Sum(_, _)
Sum(f, S) == IF S = {} THEN 0 ELSE LET x == CHOOSE x \in S : TRUE IN f[x] + Sum(f, S \ {x})

\* the individual requests issued for identifier id
RetriesOf(id) == Sum(ireqs, {u \in DOMAIN ireqs : basename(u) = id})

RECURSIVE Flatten(_, _)
Flatten(chunks, k) == IF k > Len(chunks) THEN <<>> ELSE chunks[k] \o Flatten(chunks, k + 1)

\* ceil(n / MAX_ISSUES)
Ceil(n) == (n + MAX_ISSUES - 1) \div MAX_ISSUES

IsPrefix(s, t) == Len(s) <= Len(t) /\ s = SubSeq(t, 1, Len(s))

TitlePairs == {<<u, titles[u]>> : u \in DOMAIN titles}

\* what the group of task t contributes given the remote state alone
Entries(t) ==
  IF t = JIRA
  THEN LET batch == {JiraUrl(a) : a \in {AnswerOf(JIRA, i) : i \in Range(GroupIds(JIRA))} \ {0}}
       IN {<<u, Summary(JIRA, u.id)>> : u \in batch}
            \cup {<<u, Summary(JIRA, basename(u))>> :
                    u \in {v \in Range(jira_urls) \ batch : issueLog[basename(v)] = "ok"}}
  ELSE {<<BugzillaUrl(t, a), Summary(t, a)>> :
          a \in {AnswerOf(t, i) : i \in Range(GroupIds(t))} \ {0}}

\* C1 as stated: every key of the returned mapping is an element of the input set
C1_KeysAreInputs == pc = "done" => DOMAIN titles \subseteq urls

\* C1 amended: every key of the returned mapping is an input URL or the canonical
\* URL (https, the group's host, jira.suse.com for Jira) of an identifier that a
\* batch response of that group carried; a key outside the input set carries a
\* renamed identifier or the identifier of an input URL of another form
C1_KeysAreInputsOrCarried ==
  pc = "done" =>
    \A u \in DOMAIN titles :
      \/ u \in urls
      \/ /\ u.scheme = "https"
         /\ u.netloc \in Tasks
         /\ u.id \in Carried(u.netloc)
         /\ \/ u.id < 0
            \/ \E v \in Range(GroupOf(u.netloc)) : v.id = u.id /\ v # u

C1_Witness ==
  /\ pc = "done"
  /\ \E u \in DOMAIN titles : u \notin urls
  /\ \E u \in DOMAIN titles : u \in urls

\* C2 as stated: get_titles never raises, whatever the trackers answer
C2_NeverRaises == pc # "raised"

\* C4 as stated: once get_jira_issues has returned its list, each requested
\* identifier got one individual request if the batch responses omitted it and
\* none if they carried it
C4_OneRetryPerOmittedId ==
  (JIRA \in Tasks /\ task[JIRA].st = "ret") =>
    \A i \in Range(GroupIds(JIRA)) :
      RetriesOf(i) = IF AnswerOf(JIRA, i) = i THEN 0 ELSE 1

\* C4 amended: once get_jira_issues has returned its list, each URL of the group
\* got one individual request if it is not the canonical URL
\* https://jira.suse.com/browse/<key> of a key the batch responses carried, and
\* none if it is; no other individual request was issued
C4_OneRetryPerUnmatchedUrl ==
  /\ \A u \in DOMAIN ireqs : u \in Range(jira_urls) /\ ireqs[u] = 1
  /\ (JIRA \in Tasks /\ task[JIRA].st = "ret") =>
       \A u \in Range(jira_urls) :
         Retried(u) = IF u.scheme = "https" /\ u.netloc = JIRA /\ AnswerOf(JIRA, u.id) = u.id
                      THEN 0 ELSE 1

C4_Witness ==
  /\ JIRA \in Tasks
  /\ task[JIRA].st = "ret"
  /\ \E u, v \in Range(jira_urls) :
       /\ Retried(u) = 1 /\ AnswerOf(JIRA, u.id) = u.id
       /\ Retried(v) = 0

\* C5 as stated: a queried group of N identifiers gets exactly ceil(N/200) batch
\* requests, each of at most 200 identifiers, each identifier in exactly one
C5_CeilRequests ==
  \A t \in Tasks :
    (Finished(t) /\ ~Gated(t)) =>
      /\ Len(reqs[t]) = Ceil(Len(GroupOf(t)))
      /\ \A c \in 1..Len(reqs[t]) : Len(reqs[t][c]) <= MAX_ISSUES
      /\ Flatten(reqs[t], 1) = GroupIds(t)

\* C5 amended: the batch requests of a group carry consecutive slices of at most
\* 200 of its identifier list, so each list position is in at most one; they are
\* exactly ceil(N/200) and cover the list when every one of them succeeds, and
\* fewer only when the last one issued failed or was malformed
C5_CeilRequestsUnlessFailed ==
  \A t \in Tasks :
    /\ \A c \in 1..Len(reqs[t]) : Len(reqs[t][c]) <= MAX_ISSUES /\ reqs[t][c] # <<>>
    /\ IsPrefix(Flatten(reqs[t], 1), GroupIds(t))
    /\ Len(reqs[t]) <= Ceil(Len(GroupOf(t)))
    /\ Gated(t) => reqs[t] = <<>>
    /\ (task[t].st # "run" /\ ~Gated(t) /\ AllOk(t)) =>
         /\ Len(reqs[t]) = Ceil(Len(GroupOf(t)))
         /\ Flatten(reqs[t], 1) = GroupIds(t)
    /\ (task[t].st # "run" /\ ~Gated(t) /\ ~AllOk(t)) =>
         /\ batchLog[[host |-> t, n |-> Len(reqs[t])]] # "ok"
         /\ \A c \in 1..(Len(reqs[t]) - 1) : batchLog[[host |-> t, n |-> c]] = "ok"

C5_Witness ==
  \E t \in Tasks :
    /\ task[t].st = "ret"
    /\ Len(GroupOf(t)) > MAX_ISSUES
    /\ Len(reqs[t]) = Ceil(Len(GroupOf(t)))
    /\ Len(reqs[t][1]) = MAX_ISSUES

\* C6: without a Bugzilla token no request goes to bugzilla.suse.com or
\* bugzilla.opensuse.org and no key of the mapping has either host, while every
\* other Bugzilla group has been queried when get_titles ends; without a Jira
\* token no batch or individual request goes to Jira and no key is a Jira URL
C6_CredentialGating ==
  /\ ~BUGZILLA_TOKEN =>
       /\ \A h \in TokenHosts :
            NoRequest(h) /\ \A u \in DOMAIN titles : u.netloc # h
       /\ pc \in {"done", "raised"} =>
            \A h \in DOMAIN bugzillas \ TokenHosts : reqs[h] # <<>>
  /\ ~JIRA_TOKEN =>
       /\ NoRequest(JIRA)
       /\ ireqs = EmptyMap
       /\ \A u \in DOMAIN titles : ~startswith(u.netloc, "jira")

C6_Witness ==
  /\ pc = "done"
  /\ ~BUGZILLA_TOKEN
  /\ ~JIRA_TOKEN
  /\ {SUSE, OPENSUSE, KERNEL} \subseteq DOMAIN bugzillas
  /\ jira_urls # <<>>
  /\ \E u \in DOMAIN titles : u.netloc = KERNEL

\* C8: the second resolution of the same set against the same remote state ends
\* as the first did, and returns the same mapping
C8_SameMappingTwice ==
  (again /\ pc \in {"done", "raised"}) =>
    /\ pc = prev.pc
    /\ pc = "done" => titles = prev.titles

C8_Witness ==
  /\ again
  /\ pc = "done"
  /\ Cardinality(Tasks) > 1
  /\ \A t \in Tasks : task[t].st = "ret" /\ task[t].issues # <<>>
  /\ ireqs # EmptyMap

\* C9: no request goes to bugzilla.gnome.org and no key of the mapping has that host
C9_GnomeDropped ==
  /\ GNOME \notin Tasks
  /\ NoRequest(GNOME)
  /\ \A u \in DOMAIN titles : u.netloc # GNOME

C9_Witness ==
  /\ pc = "done"
  /\ \E u \in urls : u.netloc = GNOME
  /\ titles # EmptyMap

\* C10: in the returned mapping a group with a failed batch request has no entry,
\* and the entries are exactly those the other queried groups contribute, each
\* determined by its own URLs and the remote state
C10_FailureContained ==
  pc = "done" =>
    /\ \A t \in Tasks :
         FailedRequests(t) # {} => \A u \in DOMAIN titles : ~KeyOf(t, u)
    /\ TitlePairs =
         UNION {Entries(t) : t \in {x \in Tasks : FailedRequests(x) = {} /\ ~Gated(x)}}

C10_Witness ==
  /\ pc = "done"
  /\ titles # EmptyMap
  /\ \E t \in Tasks :
       /\ Len(reqs[t]) > 1
       /\ batchLog[[host |-> t, n |-> 1]] = "ok"
       /\ FailedRequests(t) # {}

\* the pages 1..k of a route's listing, concatenated
RECURSIVE PagesUpTo(_, _)
PagesUpTo(route, k) ==
  IF k < 1 THEN <<>> ELSE PagesUpTo(route, k - 1) \o PageResults(route, k)

RouteReturned(route) == fetch[route].st = "done"

\* C3 as stated: a route with a failed request contributes no result
C3_FailedRouteIsEmpty ==
  \A r \in DOMAIN fetch :
    (RouteReturned(r) /\ fetch[r].failed # 0) => fetch[r].results = <<>>

\* C3 amended: a route whose first request fails contributes no result; a route
\* whose continuation request fails contributes the results of the pages fetched
\* before it; the other routes contribute all their pages, and get_all_incidents
\* returns the results of all routes, sorted by case-folded package name
C3_FailedRouteKeepsEarlierPages ==
  /\ \A r \in DOMAIN fetch :
       RouteReturned(r) =>
         fetch[r].results =
           PagesUpTo(r, IF fetch[r].failed # 0 THEN fetch[r].failed - 1 ELSE pages[r])
  /\ ipc = "done" =>
       /\ Range(incidents) = UNION {Range(fetch[r].results) : r \in DOMAIN fetch}
       /\ Len(incidents) = Len(Chain(routes, 1))
       /\ \A i, j \in 1..Len(incidents) :
            i < j => SortKey(incidents[i]) <= SortKey(incidents[j])

C3_Witness ==
  /\ ipc = "done"
  /\ \E r, q \in DOMAIN fetch :
       /\ fetch[r].failed > 1
       /\ fetch[r].results # <<>>
       /\ fetch[q].failed = 0
       /\ fetch[q].results # <<>>
  /\ \E i \in 1..Len(incidents) : incidents[i] # Chain(routes, 1)[i]

\* C7: when every request of a route succeeds, its pages are fetched once each,
\* in the order of their "next" links, and the results are those of all pages in
\* that order
C7_AllPagesInOrder ==
  \A r \in DOMAIN fetch :
    (RouteReturned(r) /\ fetch[r].failed = 0) =>
      /\ fetch[r].fetched = [k \in 1..pages[r] |-> k]
      /\ fetch[r].results = PagesUpTo(r, pages[r])

C7_Witness ==
  \E r \in DOMAIN fetch :
    /\ RouteReturned(r)
    /\ fetch[r].failed = 0
    /\ pages[r] > 1
    /\ Len(fetch[r].results) > 1
    /\ fetch[r].results[1].request_id[2] = 1
    /\ fetch[r].results[Len(fetch[r].results)].request_id[2] = pages[r]

====
